---- MODULE Spec2Model ----
(***************************************************************************)
(* Model of src/app.py: a Streamlit script that answers natural-language   *)
(* questions with SQL.  Streamlit re-executes the whole script on every    *)
(* interaction; only st.session_state (db, chat_history) survives a run.   *)
(* Strings are sequences of pieces: a character for the model's response   *)
(* and the SQL, an identifier or a fixed fragment of a template elsewhere. *)
(***************************************************************************)
EXTENDS Integers, Sequences, FiniteSets, TLC

\* ------------------------------------------------------------- bounds ----
MaxSubmits == 2
MaxConnects == 3
MaxLen == 4

\* ------------------------------------------------- environment inputs ----
Questions == {"How many rows in the users table?"}
NoQuery == ""
ErrTexts == {"1146 (42S02): Table doesn't exist", "2013: Lost connection"}
Whitespace == {" ", "\n"}
Backtick == "BACKTICK"   \* the one-character string holding a backtick
Alphabet == {Backtick, " ", "\n", "a"}

\* responses the completion service gives inside a session
Responses ==
  { <<Backtick, "\n", "a", "\n", Backtick>>,
    <<" ", "a", " ", "a">> }

\* every response text up to MaxLen characters
RECURSIVE StringsUpTo(_)
StringsUpTo(n) ==
  IF n = 0 THEN {<<>>}
  ELSE LET S == StringsUpTo(n - 1)
       IN  S \cup {Append(s, c) : s \in {t \in S : Len(t) = n - 1}, c \in Alphabet}

\* the unchanged database: its tables and their columns, and every order in
\* which SHOW TABLES / DESCRIBE may report them
Reports ==
  { << [name |-> "users",  columns |-> <<"id", "name">>],
       [name |-> "orders", columns |-> <<"id">>] >>,
    << [name |-> "users",  columns |-> <<"name", "id">>],
       [name |-> "orders", columns |-> <<"id">>] >>,
    << [name |-> "orders", columns |-> <<"id">>],
       [name |-> "users",  columns |-> <<"id", "name">>] >>,
    << [name |-> "orders", columns |-> <<"id">>],
       [name |-> "users",  columns |-> <<"name", "id">>] >> }

\* the metadata call of get_schema_info that raises, and the call of
\* execute_query that raises
SchemaFailPoints == {"none", "cursor", "show_tables", "describe"}
QueryFailPoints == {"none", "cursor", "execute", "fetchall", "description"}

\* what the database answers to a query that runs: rows and cursor.description
NoDescription == <<>>
QueryOutcomes ==
  { [rows |-> <<>>,                 description |-> NoDescription],
    [rows |-> <<>>,                 description |-> <<"n">>],
    [rows |-> << <<1>> >>,          description |-> <<"n">>],
    [rows |-> << <<1>>, <<2>> >>,   description |-> <<"n">>] }

\* ---------------------------------------------------------- the state ----
VARIABLES
  pc,            \* position of the script: idle between runs, or the next call
  connects,      \* successful mysql.connector.connect calls
  session_db,    \* st.session_state.db: the connection held (NoConn: none)
  chat_history,  \* st.session_state.chat_history (<<>>: key absent)
  screen,        \* what the current run has rendered, in order
  dataframe,     \* the DataFrame shown by st.dataframe in the current run
  user_query,    \* value of st.chat_input in the current run
  schema_info,   \* text returned by the latest get_schema_info call (kept until the next)
  db_report,     \* what the database did during that call: order and failure
  prompt,        \* messages sent to the completion service
  response,      \* response.content
  sql_query,     \* value returned by generate_sql
  exec_arg,      \* the query execute_query was called with
  result,        \* first component returned by execute_query
  columns,       \* second component returned by execute_query
  open_cursors,  \* cursors opened and not closed
  cursor_conn,   \* connection the latest cursor was created on
  raised         \* function whose exception ended the current run

vars == << pc, connects, session_db, chat_history, screen, dataframe,
           user_query, schema_info, db_report, prompt, response,
           sql_query, exec_arg, result, columns, open_cursors, cursor_conn, raised >>

NoConn == 0
NoText == <<>>
NoReport == [tables |-> <<>>, fail |-> "not called"]
NoFrame == [rows |-> <<>>, columns |-> <<>>]
NoResult == [type |-> "none", msg |-> "", rows |-> <<>>]
NoCall == [called |-> FALSE, query |-> <<>>]

\* ------------------------------------------------------ pure helpers ----
AIMessage(content) == [role |-> "ai", content |-> content]
HumanMessage(content) == [role |-> "human", content |-> content]

Greeting ==
  AIMessage(<<"Hello! I'm an Assistflow.ai SQL assistant. Ask me anything about your database.">>)

\* sep.join(strs) for a list of strings
RECURSIVE join(_, _)
join(strs, sep) ==
  IF strs = <<>> THEN <<>>
  ELSE IF Len(strs) = 1 THEN <<Head(strs)>>
  ELSE <<Head(strs), sep>> \o join(Tail(strs), sep)

\* sep.join(texts) for a list of already formatted texts
RECURSIVE join_texts(_, _)
join_texts(texts, sep) ==
  IF texts = <<>> THEN <<>>
  ELSE IF Len(texts) = 1 THEN Head(texts)
  ELSE Head(texts) \o <<sep>> \o join_texts(Tail(texts), sep)

\* str.lstrip / str.rstrip / str.strip over a set of characters
RECURSIVE lstrip(_, _)
lstrip(s, chars) ==
  IF s # <<>> /\ Head(s) \in chars THEN lstrip(Tail(s), chars) ELSE s

RECURSIVE rstrip(_, _)
rstrip(s, chars) ==
  IF s # <<>> /\ s[Len(s)] \in chars THEN rstrip(SubSeq(s, 1, Len(s) - 1), chars) ELSE s

strip(s, chars) == rstrip(lstrip(s, chars), chars)

\* ------------------------------------------------ get_schema_info ----
\* f"{table_name} ({', '.join(columns)})" for every table, in reported order
schema_entries(tables) ==
  [i \in 1..Len(tables) |->
     <<tables[i].name, " (">> \o join(tables[i].columns, ", ") \o <<")">>]

\* mutant: the loop starts after the first reported table
get_schema_info_skip_first(report, fail, k, err) ==
  IF fail = "none"
  THEN [raised |-> FALSE,
        text   |-> <<"Tables: ">> \o join_texts(Tail(schema_entries(report)), ", "),
        opened |-> TRUE, closed |-> TRUE]
  ELSE [raised |-> FALSE, text |-> <<err>>,
        opened |-> fail # "cursor", closed |-> FALSE]

\* mutant: a DESCRIBE that raises leaves the text built so far
get_schema_info_partial(report, fail, k, err) ==
  IF fail = "none"
  THEN [raised |-> FALSE,
        text   |-> <<"Tables: ">> \o join_texts(schema_entries(report), ", "),
        opened |-> TRUE, closed |-> TRUE]
  ELSE IF fail = "describe"
  THEN [raised |-> FALSE,
        text   |-> <<"Tables: ">>
                     \o join_texts(SubSeq(schema_entries(report), 1, k - 1), ", "),
        opened |-> TRUE, closed |-> FALSE]
  ELSE [raised |-> FALSE, text |-> <<err>>,
        opened |-> fail # "cursor", closed |-> FALSE]

\* report: the tables and columns as the database reports them in this call;
\* fail: the metadata call that raises (k: the table whose DESCRIBE raises);
\* err: str(e).  Every statement is inside the try, cursor.close() is the last
\* statement of the try block only.
get_schema_info(report, fail, k, err) ==
  IF fail = "none"
  THEN [raised |-> FALSE,
        text   |-> <<"Tables: ">> \o join_texts(schema_entries(report), ", "),
        opened |-> TRUE, closed |-> TRUE]
  ELSE [raised |-> FALSE, text |-> <<err>>,
        opened |-> fail # "cursor", closed |-> FALSE]

\* --------------------------------------------------- generate_sql ----
format_messages(schema, query) ==
  <<"You are an expert in MariaDB SQL. ... The database schema is:\n">>
    \o schema \o <<"\n\nQuestion: ", query,
                   "\n\nReturn ONLY the SQL query, with no extra text or explanation.">>

\* mutant: only the leading backticks are removed
generate_sql_lstrip(schema, query, llm) ==
  IF llm.raises
  THEN [raised |-> TRUE, prompt |-> format_messages(schema, query),
        response |-> <<>>, sql_query |-> <<>>]
  ELSE [raised |-> FALSE, prompt |-> format_messages(schema, query),
        response |-> llm.content,
        sql_query |-> lstrip(strip(llm.content, Whitespace), {Backtick})]

\* llm: what the completion service does with the prompt; nothing catches
\* its exception
generate_sql(schema, query, llm) ==
  IF llm.raises
  THEN [raised |-> TRUE, prompt |-> format_messages(schema, query),
        response |-> <<>>, sql_query |-> <<>>]
  ELSE [raised |-> FALSE, prompt |-> format_messages(schema, query),
        response |-> llm.content,
        sql_query |-> strip(strip(llm.content, Whitespace), {Backtick})]

\* -------------------------------------------------- execute_query ----
\* mutant: the cursor is created before the try block
execute_query_cursor_outside_try(query, fail, err, outcome) ==
  IF fail = "none"
  THEN [raised |-> FALSE,
        result |-> [type |-> "list", msg |-> "", rows |-> outcome.rows],
        columns |-> IF outcome.description # NoDescription
                    THEN outcome.description ELSE <<>>,
        opened |-> TRUE, closed |-> TRUE]
  ELSE IF fail = "cursor"
  THEN [raised |-> TRUE, result |-> NoResult, columns |-> <<>>,
        opened |-> FALSE, closed |-> FALSE]
  ELSE [raised |-> FALSE,
        result |-> [type |-> "str", msg |-> err, rows |-> <<>>],
        columns |-> <<>>,
        opened |-> TRUE, closed |-> FALSE]

\* query: the SQL handed to cursor.execute; fail: the call that raises;
\* err: str(e); outcome: what the database returns when nothing raises
execute_query(query, fail, err, outcome) ==
  IF fail = "none"
  THEN [raised |-> FALSE,
        result |-> [type |-> "list", msg |-> "", rows |-> outcome.rows],
        columns |-> IF outcome.description # NoDescription
                    THEN outcome.description ELSE <<>>,
        opened |-> TRUE, closed |-> TRUE]
  ELSE [raised |-> FALSE,
        result |-> [type |-> "str", msg |-> err, rows |-> <<>>],
        columns |-> <<>>,
        opened |-> fail # "cursor", closed |-> FALSE]

\* ------------------------------------------------ the answer turn ----
DataFrame(rows, cols) == [rows |-> rows, columns |-> cols]

generated_sql(sql) == <<"**Generated SQL**: ", Backtick>> \o sql \o <<Backtick, "\n\n">>

\* mutant: a single row is reported as no result (len(result) > 1)
answer_more_than_one(sql, res, cols) ==
  IF res.type = "str"
  THEN [message |-> AIMessage(generated_sql(sql) \o <<"**Error**: ", res.msg>>),
        widget |-> "error", df |-> NoFrame]
  ELSE IF Len(res.rows) > 1
  THEN [message |-> AIMessage(generated_sql(sql) \o <<"**Results**:">>),
        widget |-> "markdown", df |-> DataFrame(res.rows, cols)]
  ELSE [message |-> AIMessage(generated_sql(sql) \o <<"No results found.">>),
        widget |-> "markdown", df |-> NoFrame]

\* lines 148-168: the message appended, the widget showing it and the
\* DataFrame displayed next to it
answer(sql, res, cols) ==
  IF res.type = "str"
  THEN [message |-> AIMessage(generated_sql(sql) \o <<"**Error**: ", res.msg>>),
        widget |-> "error", df |-> NoFrame]
  ELSE IF Len(res.rows) > 0
  THEN [message |-> AIMessage(generated_sql(sql) \o <<"**Results**:">>),
        widget |-> "markdown", df |-> DataFrame(res.rows, cols)]
  ELSE [message |-> AIMessage(generated_sql(sql) \o <<"No results found.">>),
        widget |-> "markdown", df |-> NoFrame]

\* -------------------------------------------------- session state ----
\* mutant: the greeting is installed on every run
init_chat_history_unguarded(history) == <<Greeting>>

\* lines 115-118: the greeting is installed only when the key is absent
init_chat_history(history) ==
  IF history = <<>> THEN <<Greeting>> ELSE history

\* lines 121-127: every stored message is rendered from its content alone
render(history) ==
  [i \in 1..Len(history) |->
     [role   |-> IF history[i].role = "ai" THEN "assistant" ELSE "user",
      widget |-> "markdown",
      content |-> history[i].content]]

Submits(history) == Cardinality({i \in 1..Len(history) : history[i].role = "human"})

\* ---------------------------------------------------- the machine ----
\* a fresh browser session: st.session_state is empty, no run has started
Init ==
  /\ pc = "idle"
  /\ connects = 0
  /\ session_db = NoConn
  /\ chat_history = <<>>
  /\ screen = <<>>
  /\ dataframe = NoFrame
  /\ user_query = NoQuery
  /\ schema_info = NoText
  /\ db_report = NoReport
  /\ prompt = NoText
  /\ response = NoText
  /\ sql_query = NoText
  /\ exec_arg = NoCall
  /\ result = NoResult
  /\ columns = <<>>
  /\ open_cursors = 0
  /\ cursor_conn = NoConn
  /\ raised = "none"

\* a run starts with a fresh namespace and an empty page
FreshRun ==
  /\ dataframe' = NoFrame
  /\ prompt' = NoText
  /\ response' = NoText
  /\ sql_query' = NoText
  /\ exec_arg' = NoCall
  /\ result' = NoResult
  /\ columns' = <<>>
  /\ raised' = "none"

\* lines 40-52, except branch: connect raises, st.error and st.stop()
ConnectFails ==
  /\ pc = "idle"
  /\ FreshRun
  /\ \E e \in ErrTexts :
       screen' = << [role |-> "app", widget |-> "error",
                     content |-> <<"Connection failed: ", e>>] >>
  /\ user_query' = NoQuery
  /\ UNCHANGED << pc, connects, session_db, chat_history, schema_info,
                  db_report, open_cursors, cursor_conn >>

\* lines 40-49 and 115-130: connect, install the greeting if absent, render
\* the transcript, read the chat input
Connected(q) ==
  /\ pc = "idle"
  /\ connects < MaxConnects
  /\ FreshRun
  /\ connects' = connects + 1
  /\ session_db' = connects + 1
  /\ user_query' = q
  /\ UNCHANGED << schema_info, db_report, open_cursors, cursor_conn >>

\* a run with no question submitted: the script ends after rendering
Rerun ==
  /\ Connected(NoQuery)
  /\ chat_history' = init_chat_history(chat_history)
  /\ screen' = render(chat_history')
  /\ pc' = "idle"

\* lines 132-136: a run with a question: the HumanMessage is appended
Submit ==
  \E q \in Questions :
    /\ Submits(chat_history) < MaxSubmits
    /\ Connected(q)
    /\ chat_history' = Append(init_chat_history(chat_history), HumanMessage(<<q>>))
    /\ screen' = Append(render(init_chat_history(chat_history)),
                        [role |-> "user", widget |-> "markdown", content |-> <<q>>])
    /\ pc' = "schema"

\* an exception nothing catches ends the run; Streamlit shows it
Uncaught(fn) ==
  /\ pc' = "idle"
  /\ raised' = fn
  /\ screen' = Append(screen, [role |-> "app", widget |-> "exception",
                               content |-> <<fn>>])

\* line 139
GetSchemaInfo ==
  /\ pc = "schema"
  /\ \E report \in Reports, fail \in SchemaFailPoints, e \in ErrTexts :
     \E k \in 1..Len(report) :
       LET r == get_schema_info(report, fail, k, e) IN
         /\ db_report' = [tables |-> IF fail \in {"cursor", "show_tables"}
                                      THEN <<>> ELSE report,
                          fail |-> fail]
         /\ cursor_conn' = session_db
         /\ open_cursors' = open_cursors + (IF r.opened /\ ~r.closed THEN 1 ELSE 0)
         /\ IF r.raised
            THEN Uncaught("get_schema_info") /\ UNCHANGED schema_info
            ELSE /\ schema_info' = r.text
                 /\ pc' = "translate"
                 /\ UNCHANGED << screen, raised >>
  /\ UNCHANGED << connects, session_db, chat_history, dataframe, user_query,
                  prompt, response, sql_query, exec_arg, result, columns >>

\* line 142, for one behaviour of the completion service
GenerateSqlStep(llm) ==
  /\ pc = "translate"
  /\ LET g == generate_sql(schema_info, user_query, llm) IN
       /\ prompt' = g.prompt
       /\ IF g.raised
          THEN Uncaught("generate_sql") /\ UNCHANGED << response, sql_query >>
          ELSE /\ response' = g.response
               /\ sql_query' = g.sql_query
               /\ pc' = "execute"
               /\ UNCHANGED << screen, raised >>
  /\ UNCHANGED << connects, session_db, chat_history, dataframe, user_query,
                  schema_info, db_report, exec_arg, result, columns,
                  open_cursors, cursor_conn >>

LlmBehaviours ==
  {[raises |-> TRUE, content |-> <<>>]} \cup {[raises |-> FALSE, content |-> r] : r \in Responses}

GenerateSql == \E llm \in LlmBehaviours : GenerateSqlStep(llm)

\* line 145
ExecuteQuery ==
  /\ pc = "execute"
  /\ \E fail \in QueryFailPoints, e \in ErrTexts, outcome \in QueryOutcomes :
       LET x == execute_query(sql_query, fail, e, outcome) IN
         /\ exec_arg' = [called |-> TRUE, query |-> sql_query]
         /\ cursor_conn' = session_db
         /\ open_cursors' = open_cursors + (IF x.opened /\ ~x.closed THEN 1 ELSE 0)
         /\ IF x.raised
            THEN Uncaught("execute_query") /\ UNCHANGED << result, columns >>
            ELSE /\ result' = x.result
                 /\ columns' = x.columns
                 /\ pc' = "respond"
                 /\ UNCHANGED << screen, raised >>
  /\ UNCHANGED << connects, session_db, chat_history, dataframe, user_query,
                  schema_info, db_report, prompt, response, sql_query >>

\* lines 148-168
Respond ==
  /\ pc = "respond"
  /\ LET a == answer(sql_query, result, columns) IN
       /\ chat_history' = Append(chat_history, a.message)
       /\ screen' = Append(screen, [role |-> "assistant", widget |-> a.widget,
                                    content |-> a.message.content])
       /\ dataframe' = a.df
  /\ pc' = "idle"
  /\ UNCHANGED << connects, session_db, user_query, schema_info, db_report,
                  prompt, response, sql_query, exec_arg, result, columns,
                  open_cursors, cursor_conn, raised >>

Next ==
  \/ ConnectFails
  \/ Rerun
  \/ Submit
  \/ GetSchemaInfo
  \/ GenerateSql
  \/ ExecuteQuery
  \/ Respond

Spec == Init /\ [][Next]_vars

\* -------------------------------- generate_sql over all response texts ----
\* the first question of a session has reached line 142
InitTranslate ==
  /\ pc = "translate"
  /\ connects = 1
  /\ session_db = 1
  /\ \E q \in Questions :
       /\ user_query = q
       /\ chat_history = <<Greeting, HumanMessage(<<q>>)>>
       /\ screen = Append(render(<<Greeting>>),
                          [role |-> "user", widget |-> "markdown", content |-> <<q>>])
  /\ dataframe = NoFrame
  /\ \E report \in Reports :
       /\ db_report = [tables |-> report, fail |-> "none"]
       /\ schema_info = get_schema_info(report, "none", 1, "").text
  /\ prompt = NoText
  /\ response = NoText
  /\ sql_query = NoText
  /\ exec_arg = NoCall
  /\ result = NoResult
  /\ columns = <<>>
  /\ open_cursors = 0
  /\ cursor_conn = 1
  /\ raised = "none"

GenerateSqlAnyText ==
  \E r \in StringsUpTo(MaxLen) : GenerateSqlStep([raises |-> FALSE, content |-> r])

SpecTranslate == InitTranslate /\ [][GenerateSqlAnyText]_vars

\* ======================================================== the claims ====
Last(seq) == seq[Len(seq)]
IsPrefix(a, b) == Len(a) <= Len(b) /\ SubSeq(b, 1, Len(a)) = a
Edge == {Backtick} \cup Whitespace

\* the current run is a submit whose pipeline has passed get_schema_info
PastSchema == user_query # NoQuery /\ pc # "schema"
\* the current run is a submit that ended with generate_sql having returned
Answered == pc = "idle" /\ user_query # NoQuery /\ raised = "none"
\* the last two transcript entries are the question of this run and one answer
OneAnswerAppended ==
  /\ Len(chat_history) >= 3
  /\ Last(chat_history).role = "ai"
  /\ chat_history[Len(chat_history) - 1] = HumanMessage(<<user_query>>)

\* C1: at the end of every submit, translation failures included, every
\* UserTurn of the transcript is followed by exactly one AssistantTurn.
C1_EveryUserTurnAnswered ==
  pc = "idle" =>
    \A i \in 1..Len(chat_history) :
      chat_history[i].role = "human" =>
        /\ i < Len(chat_history)
        /\ chat_history[i + 1].role = "ai"
        /\ (i + 2 <= Len(chat_history) => chat_history[i + 2].role = "human")

\* C2: execute_query never raises; whatever the database does it returns
\* either Success (rows, columns) or Failure (the driver's error text and an
\* empty column list), never both.
C2_Failure ==
  /\ result.type = "str"
  /\ result.msg \in ErrTexts
  /\ result.rows = <<>>
  /\ columns = <<>>
C2_Success ==
  /\ result.type = "list"
  /\ result.msg = ""
  /\ \E o \in QueryOutcomes : result.rows = o.rows /\ columns = o.description
C2_ExecuteNeverRaises ==
  /\ raised # "execute_query"
  /\ exec_arg.called =>
       /\ pc \in {"respond", "idle"}
       /\ exec_arg.query = sql_query
       /\ C2_Failure # C2_Success
C2_Witness ==
  /\ pc = "respond"
  /\ exec_arg.called
  /\ result.type = "str"
  /\ result.msg \in ErrTexts

\* C3 (as stated): the string returned by generate_sql has no leading or
\* trailing backtick and no leading or trailing whitespace.
C3_NoEdgeBacktickOrWhitespace ==
  (pc = "execute" /\ sql_query # <<>>) =>
    /\ Head(sql_query) \notin Edge
    /\ Last(sql_query) \notin Edge

\* C3 (amended): the string returned by generate_sql has no leading or
\* trailing backtick; it starts (ends) with whitespace only when the first
\* (last) non-whitespace character of the response is a backtick, i.e. the
\* whitespace lies inside the backtick fence.
FirstNonWhitespaceIsBacktick(s) ==
  \E i \in 1..Len(s) :
    s[i] = Backtick /\ \A j \in 1..(i - 1) : s[j] \in Whitespace
LastNonWhitespaceIsBacktick(s) ==
  \E i \in 1..Len(s) :
    s[i] = Backtick /\ \A j \in (i + 1)..Len(s) : s[j] \in Whitespace
C3_NoEdgeBacktick ==
  (pc = "execute" /\ sql_query # <<>>) =>
    /\ Head(sql_query) # Backtick
    /\ Last(sql_query) # Backtick
    /\ (Head(sql_query) \in Whitespace => FirstNonWhitespaceIsBacktick(response))
    /\ (Last(sql_query) \in Whitespace => LastNonWhitespaceIsBacktick(response))
C3_Witness ==
  /\ pc = "execute"
  /\ response = <<Backtick, " ", "a", Backtick>>
  /\ sql_query = <<" ", "a">>

\* C4: when generate_sql returned, the submit appends exactly one AssistantTurn
\* whose kind follows from the query result alone: Failure gives the SQL and
\* Error with the driver's message, Success with no rows gives the SQL and
\* "No results found.", Success with rows gives the SQL and Results.
C4_Kind(content) ==
  LET n == Len(content) IN
    /\ n = Len(sql_query) + 5 + (IF result.type = "str" THEN 1 ELSE 0)
    /\ content[1] = "**Generated SQL**: "
    /\ SubSeq(content, 3, 2 + Len(sql_query)) = sql_query
    /\ IF result.type = "str"
       THEN content[n - 1] = "**Error**: " /\ content[n] = result.msg
       ELSE IF result.rows = <<>>
       THEN content[n] = "No results found."
       ELSE content[n] = "**Results**:"
C4_OneTurnByResult ==
  Answered =>
    /\ exec_arg.called
    /\ result.type \in {"str", "list"}
    /\ OneAnswerAppended
    /\ C4_Kind(Last(chat_history).content)
C4_Witness ==
  /\ Answered
  /\ Len(chat_history) = 5
  /\ Last(chat_history[3].content) \in ErrTexts
  /\ Last(chat_history[5].content) = "**Results**:"
  /\ Len(result.rows) = 1

\* C5: after a submit whose query returns rows, the AssistantTurn stored last
\* in the transcript carries the rows and columns; after one that returns no
\* rows it carries no payload.
Payload(turn) == IF "payload" \in DOMAIN turn THEN turn.payload ELSE NoFrame
C5_PayloadStored ==
  (Answered /\ result.type = "list") =>
    Payload(Last(chat_history)) =
      (IF result.rows # <<>> THEN DataFrame(result.rows, columns) ELSE NoFrame)

\* C6 (as stated): a call of get_schema_info returns the text the call
\* before it returned, whatever order the database reports and whatever
\* the metadata calls do.
SchemaCall == pc = "schema" /\ pc' = "translate" /\ schema_info # NoText
C6_Idempotent == [][SchemaCall => schema_info' = schema_info]_vars

\* C6 (amended): two successful calls against the unchanged database list the
\* same tables, each with the same columns, and return identical text when
\* the database reports tables and columns in the same order in both.
SchemaOk(text) == text # NoText /\ Head(text) = "Tables: "
ClosingOf(text, i) ==
  CHOOSE j \in (i + 2)..Len(text) :
    text[j] = ")" /\ \A m \in (i + 2)..(j - 1) : text[m] # ")"
Listed(text) ==
  { [name |-> text[i],
     columns |-> {text[m] : m \in {x \in (i + 2)..(ClosingOf(text, i) - 1) :
                                      text[x] # ", "}}] :
    i \in {x \in 1..(Len(text) - 1) : text[x + 1] = " ("} }
C6_SameTablesAndColumns ==
  [][(SchemaCall /\ SchemaOk(schema_info) /\ SchemaOk(schema_info')) =>
       /\ Listed(schema_info') = Listed(schema_info)
       /\ (db_report'.tables = db_report.tables => schema_info' = schema_info)]_vars
C6_Witness ==
  /\ pc = "translate"
  /\ Submits(chat_history) = 2
  /\ db_report.fail = "none"
  /\ SchemaOk(schema_info)
  /\ Listed(schema_info) =
       { [name |-> "users", columns |-> {"id", "name"}],
         [name |-> "orders", columns |-> {"id"}] }
  /\ schema_info[2] = "orders"

Greetings(history) == {i \in 1..Len(history) : history[i] = Greeting}
C8_AppendOnly ==
  [][/\ IsPrefix(chat_history, chat_history')
     /\ (chat_history' # <<>> => Greetings(chat_history') = {1})]_vars
C8_Witness ==
  /\ pc = "idle"
  /\ connects >= 3
  /\ user_query = NoQuery
  /\ Len(chat_history) = 5
  /\ chat_history[1] = Greeting

\* C9: the connection is opened once per session and every cursor is created
\* on that one connection.
C9_ConnectedOnce ==
  /\ connects <= 1
  /\ session_db \in {NoConn, 1}
  /\ cursor_conn \in {NoConn, 1}

\* C10: no cursor opened by get_schema_info or execute_query is left open
\* when the function has returned.
C10_NoCursorLeftOpen == open_cursors = 0

====
